---------------------------- MODULE Spec2Model ----------------------------
(***************************************************************************)
(* Clear Terms backend: the asynchronous analysis pipeline (processJob),   *)
(* the POST /scan handler that starts it, the in-memory job table and      *)
(* analysis cache, and the credit ledger (UserService over                 *)
(* DatabaseService) with its advisory lock file.                           *)
(*                                                                         *)
(* Every asynchronous function is cut at its awaits: one action is one     *)
(* run-to-completion segment of JavaScript, or one file-system / network   *)
(* operation together with the continuation that consumes its result.      *)
(***************************************************************************)
EXTENDS Integers, Sequences, FiniteSets, TLC

(***************************************************************************)
(* Bounds of the model.                                                    *)
(***************************************************************************)
MaxCalls == 2          \* ledger calls issued by clients in LedgerSpec
MaxCredits == 1        \* largest balance a record holds at start-up
MaxTicks == 1          \* clock advances
maxRetries == 2        \* attempts of acquireLock (the code makes 10, 100 ms apart)
maxJobs == 2           \* jobs the JobManager may hold (the server passes 1000)
MaxJobIds == 4         \* jobs added in JobStoreSpec
MAX_CACHE_ENTRIES == 2 \* entries the cache may hold (the code allows 1000)
MaxModels == 3         \* longest fallbackModels list handed to callGemini

(***************************************************************************)
(* Program constants.                                                      *)
(***************************************************************************)
INITIAL_CREDITS == 10  \* balance of a record made by createUser

\* the tasks that run concurrently: two requests, or two ledger clients
Procs == {1, 2}
DeviceIds == {"d1", "d2"}

VARIABLES
  useJsonBin,   \* DatabaseService.useJsonBin: remote blob (TRUE) or local file
  users,        \* the persisted record set: data.users, by deviceId
  lockFile,     \* users.lock: "absent", "fresh", or "stale" (older than 5 s)
  lockActive,   \* DatabaseService.lockActive (one flag for the whole process)
  op,           \* the ledger operation each task has in flight
  ledgerHist,   \* per owner: start balance, successful debits, credits added
  calls,        \* ledger calls issued so far by clients
  server,       \* which server file runs: "manager" (JobManager) or "map" (Map)
  now,          \* the wall clock, in hours
  ticks,        \* clock advances so far
  jobs,         \* the job objects, and whether the job table still holds them
  task,         \* each request: the POST /scan handler, then its processJob run
  cache,        \* the analysis cache, by url hash
  report,       \* the report objects (shared by reference between cache and jobs)
  hist,         \* per task: what its pipeline run did (debits, provider calls ...)
  gemini        \* a callGemini call: its model list, the models tried, its outcome

ledgerVars == <<useJsonBin, users, lockFile, lockActive, op, ledgerHist, calls>>
pipeVars == <<server, now, ticks, jobs, task, cache, report, hist>>
vars == <<useJsonBin, users, lockFile, lockActive, op, ledgerHist, calls,
          server, now, ticks, jobs, task, cache, report, hist, gemini>>

(***************************************************************************)
(* Ledger records.                                                         *)
(***************************************************************************)
NoUser == [exists |-> FALSE, remainingScans |-> 0, totalScansUsed |-> 0,
           plan |-> "none", purchaseHistory |-> <<>>]

NewUser == [exists |-> TRUE, remainingScans |-> INITIAL_CREDITS, totalScansUsed |-> 0,
            plan |-> "free", purchaseHistory |-> <<>>]

StoredUser(n) == [exists |-> TRUE, remainingScans |-> n, totalScansUsed |-> 0,
                  plan |-> "free", purchaseHistory |-> <<>>]

EmptyData == [d \in DeviceIds |-> NoUser]

Outcome(err, write, data, ret, user) ==
  [err |-> err, write |-> write, data |-> data, ret |-> ret, user |-> user]

\* _calculateScansFromAmount: pricingMap[amount] || 0
calculateScansFromAmountFlatRate(amount) == amount * 5
calculateScansFromAmount(amount) ==
  CASE amount = 2 -> 10
    [] amount = 5 -> 30
    [] amount = 10 -> 100
    [] OTHER -> 0

\* the guard of decrementCredits: user.remainingScans <= 0
QuotaExhaustedOffByOne(user) == user.remainingScans < 0
QuotaExhausted(user) == user.remainingScans <= 0

\* getUser: data.users[deviceId] || null
getUser(data, d) == Outcome("", FALSE, data, 0, data[d])

\* createUser: the existing record, or a new one seeded with INITIAL_CREDITS
createUserReseeding(data, d) ==
  Outcome("", TRUE, [data EXCEPT ![d] = NewUser], 0, NewUser)
createUser(data, d) ==
  IF data[d].exists
    THEN Outcome("", FALSE, data, 0, data[d])
    ELSE Outcome("", TRUE, [data EXCEPT ![d] = NewUser], 0, NewUser)

\* decrementCredits, between its read and its write
decrementCreditsUnchecked(data, d) ==
  LET user == data[d] IN
  IF ~user.exists THEN Outcome("USER_NOT_FOUND", FALSE, data, 0, NoUser)
  ELSE LET u == [user EXCEPT !.remainingScans = @ - 1, !.totalScansUsed = @ + 1]
       IN Outcome("", TRUE, [data EXCEPT ![d] = u], u.remainingScans, u)

decrementCreditsUsageKept(data, d) ==
  LET user == data[d] IN
  IF ~user.exists THEN Outcome("USER_NOT_FOUND", FALSE, data, 0, NoUser)
  ELSE IF QuotaExhausted(user) THEN Outcome("QUOTA_EXCEEDED", FALSE, data, 0, NoUser)
  ELSE LET u == [user EXCEPT !.remainingScans = @ - 1]
       IN Outcome("", TRUE, [data EXCEPT ![d] = u], u.remainingScans, u)

decrementCredits(data, d) ==
  LET user == data[d] IN
  IF ~user.exists THEN Outcome("USER_NOT_FOUND", FALSE, data, 0, NoUser)
  ELSE IF QuotaExhausted(user) THEN Outcome("QUOTA_EXCEEDED", FALSE, data, 0, NoUser)
  ELSE LET u == [user EXCEPT !.remainingScans = @ - 1, !.totalScansUsed = @ + 1]
       IN Outcome("", TRUE, [data EXCEPT ![d] = u], u.remainingScans, u)

\* addCredits, between its read and its write
addCredits(data, d, amount) ==
  LET user == data[d] IN
  IF ~user.exists THEN Outcome("USER_NOT_FOUND", FALSE, data, 0, NoUser)
  ELSE LET u == [user EXCEPT !.remainingScans = @ + amount, !.plan = "premium"]
       IN Outcome("", TRUE, [data EXCEPT ![d] = u], u.remainingScans, u)

\* recordPurchase, between its read and its write
recordPurchase(data, d, amount, status) ==
  LET user == data[d]
      scansToAdd == calculateScansFromAmount(amount)
      creditsBefore == user.remainingScans
  IN
  IF ~user.exists THEN Outcome("USER_NOT_FOUND", FALSE, data, 0, NoUser)
  ELSE IF status = "completed"
    THEN LET purchase == [paymentIntentId |-> "pi", scansAdded |-> scansToAdd,
                          creditsBefore |-> creditsBefore,
                          creditsAfter |-> creditsBefore + scansToAdd]
             u == [user EXCEPT !.remainingScans = @ + scansToAdd,
                               !.plan = "premium",
                               !.purchaseHistory = Append(@, purchase)]
         IN Outcome("", TRUE, [data EXCEPT ![d] = u], scansToAdd, u)
    ELSE Outcome("", TRUE, data, 0, user)

\* the read-modify part of each ledger method
Mutate(o, data) ==
  CASE o.kind = "getUser" -> getUser(data, o.deviceId)
    [] o.kind = "createUser" -> createUser(data, o.deviceId)
    [] o.kind = "decrementCredits" -> decrementCredits(data, o.deviceId)
    [] o.kind = "addCredits" -> addCredits(data, o.deviceId, o.amount)
    [] o.kind = "recordPurchase" -> recordPurchase(data, o.deviceId, o.amount, o.status)

(***************************************************************************)
(* A ledger operation in flight.  pc:                                      *)
(*   idle | acq_try | acq_ok | acq_stat | acq_unlink | read | write |      *)
(*   rel_unlink | returned | thrown                                        *)
(***************************************************************************)
IdleOp == [kind |-> "none", deviceId |-> "d1", amount |-> 0, status |-> "completed",
           pc |-> "idle", i |-> 0, data |-> EmptyData,
           err |-> "", ret |-> 0, user |-> NoUser]

\* the operation has left its try/finally: drop its locals
Finished(o) ==
  [o EXCEPT !.pc = IF o.err = "" THEN "returned" ELSE "thrown",
            !.i = 0, !.data = EmptyData]

\* releaseLock up to its await: if (this.lockActive) { await fs.unlink(LOCK_FILE) ...
ReleaseEntryOnSuccessOnly(o) ==
  IF lockActive /\ o.err = "" THEN [o EXCEPT !.pc = "rel_unlink", !.i = 0, !.data = EmptyData]
  ELSE Finished(o)
ReleaseEntry(o) ==
  IF lockActive THEN [o EXCEPT !.pc = "rel_unlink", !.i = 0, !.data = EmptyData]
  ELSE Finished(o)

\* a ledger method up to its first await; the argument checks throw before the try
Call(kind, d, amount, status) ==
  LET o == [IdleOp EXCEPT !.kind = kind, !.deviceId = d, !.amount = amount,
                          !.status = status]
  IN IF kind = "addCredits" /\ amount <= 0
       THEN [o EXCEPT !.pc = "thrown", !.err = "amount must be positive"]
     ELSE IF kind = "recordPurchase" /\ amount = 0
       THEN [o EXCEPT !.pc = "thrown", !.err = "stripePaymentIntentId and amount are required"]
     ELSE [o EXCEPT !.pc = IF useJsonBin THEN "read" ELSE "acq_try"]

\* the for loop of acquireLock moves to its next attempt, or gives up
NextAttemptProceeds(o) ==
  IF o.i + 1 < maxRetries
    THEN [o EXCEPT !.pc = "acq_try", !.i = @ + 1]
    ELSE [o EXCEPT !.pc = "read"]
NextAttempt(o) ==
  IF o.i + 1 < maxRetries
    THEN [o EXCEPT !.pc = "acq_try", !.i = @ + 1]
    ELSE ReleaseEntry([o EXCEPT !.err = "Unable to acquire lock on users.json"])

\* what a successful write adds to the owner's history
Recorded(h, o) ==
  CASE o.kind = "decrementCredits" ->
         [h EXCEPT ![o.deviceId].debits = @ + 1, ![o.deviceId].writes = @ + 1]
    [] o.kind = "addCredits" ->
         [h EXCEPT ![o.deviceId].credits = @ + o.amount, ![o.deviceId].writes = @ + 1]
    [] o.kind = "recordPurchase" ->
         [h EXCEPT ![o.deviceId].credits = @ + o.ret, ![o.deviceId].writes = @ + 1]
    [] o.kind = "createUser" ->
         [h EXCEPT ![o.deviceId].init = INITIAL_CREDITS, ![o.deviceId].writes = @ + 1]
    [] OTHER -> h

(***************************************************************************)
(* acquireLock (local file only)                                           *)
(***************************************************************************)
\* fs.writeFile(LOCK_FILE, ..., { flag: 'wx' })
AcquireTry(p) ==
  /\ op[p].pc = "acq_try"
  /\ IF lockFile = "absent"
       THEN /\ lockFile' = "fresh"
            /\ op' = [op EXCEPT ![p].pc = "acq_ok"]
       ELSE /\ lockFile' = lockFile
            /\ op' = [op EXCEPT ![p].pc = "acq_stat"]
  /\ UNCHANGED <<gemini, useJsonBin, users, lockActive, ledgerHist, calls, pipeVars>>

\* this.lockActive = true; return true; then the method calls _readUsers()
AcquireOk(p) ==
  /\ op[p].pc = "acq_ok"
  /\ lockActive' = TRUE
  /\ op' = [op EXCEPT ![p].pc = "read"]
  /\ UNCHANGED <<gemini, useJsonBin, users, lockFile, ledgerHist, calls, pipeVars>>

\* lockAge > 5000
LockNeverStale(file) == FALSE
LockStale(file) == file = "stale"

\* EEXIST: fs.stat(LOCK_FILE), then unlink a stale lock, or sleep and retry
AcquireStat(p) ==
  /\ op[p].pc = "acq_stat"
  /\ op' = [op EXCEPT ![p] =
              IF LockStale(lockFile) THEN [@ EXCEPT !.pc = "acq_unlink"]
              ELSE NextAttempt(@)]
  /\ UNCHANGED <<gemini, useJsonBin, users, lockFile, lockActive, ledgerHist, calls, pipeVars>>

\* fs.unlink(LOCK_FILE).catch(() => {}); continue
AcquireUnlink(p) ==
  /\ op[p].pc = "acq_unlink"
  /\ lockFile' = "absent"
  /\ op' = [op EXCEPT ![p] = NextAttempt(@)]
  /\ UNCHANGED <<gemini, useJsonBin, users, lockActive, ledgerHist, calls, pipeVars>>

\* the lock file becomes older than 5000 ms
LockAges ==
  /\ lockFile = "fresh"
  /\ lockFile' = "stale"
  /\ UNCHANGED <<gemini, useJsonBin, users, lockActive, op, ledgerHist, calls, pipeVars>>

(***************************************************************************)
(* the read-modify-write section                                           *)
(***************************************************************************)
\* _readUsers() returns, and the method runs to its write or to its throw
Read(p) ==
  /\ op[p].pc = "read"
  /\ LET out == Mutate(op[p], users)
         o == [op[p] EXCEPT !.err = out.err, !.ret = out.ret, !.user = out.user,
                            !.data = out.data]
     IN op' = [op EXCEPT ![p] = IF out.write THEN [o EXCEPT !.pc = "write"]
                                ELSE ReleaseEntry(o)]
  /\ UNCHANGED <<gemini, useJsonBin, users, lockFile, lockActive, ledgerHist, calls, pipeVars>>

\* _readUsers() throws (file unreadable, remote store answers an error)
ReadFails(p) ==
  /\ op[p].pc = "read"
  /\ op' = [op EXCEPT ![p] = ReleaseEntry([@ EXCEPT !.err = "read error"])]
  /\ UNCHANGED <<gemini, useJsonBin, users, lockFile, lockActive, ledgerHist, calls, pipeVars>>

\* _writeUsers(data) writes the whole record set back
Write(p) ==
  /\ op[p].pc = "write"
  /\ users' = op[p].data
  /\ ledgerHist' = Recorded(ledgerHist, op[p])
  /\ op' = [op EXCEPT ![p] = ReleaseEntry(@)]
  /\ UNCHANGED <<gemini, useJsonBin, lockFile, lockActive, calls, pipeVars>>

\* _writeUsers(data) throws and nothing is stored
WriteFails(p) ==
  /\ op[p].pc = "write"
  /\ op' = [op EXCEPT ![p] = ReleaseEntry([@ EXCEPT !.err = "write error", !.ret = 0,
                                                     !.user = NoUser])]
  /\ UNCHANGED <<gemini, useJsonBin, users, lockFile, lockActive, ledgerHist, calls, pipeVars>>

(***************************************************************************)
(* releaseLock                                                             *)
(***************************************************************************)
\* await fs.unlink(LOCK_FILE); this.lockActive = false: the assignment runs
\* as soon as the unlink has completed, ahead of every later completion; a
\* missing file is swallowed and lockActive stays set
ReleaseUnlink(p) ==
  /\ op[p].pc = "rel_unlink"
  /\ IF lockFile # "absent"
       THEN /\ lockFile' = "absent"
            /\ lockActive' = FALSE
       ELSE UNCHANGED <<lockFile, lockActive>>
  /\ op' = [op EXCEPT ![p] = Finished(@)]
  /\ UNCHANGED <<gemini, useJsonBin, users, ledgerHist, calls, pipeVars>>

LedgerStep(p) ==
  \/ AcquireTry(p)
  \/ AcquireOk(p)
  \/ AcquireStat(p)
  \/ AcquireUnlink(p)
  \/ Read(p)
  \/ ReadFails(p)
  \/ Write(p)
  \/ WriteFails(p)
  \/ ReleaseUnlink(p)

(***************************************************************************)
(* The job table, the analysis cache and the pipeline.                     *)
(***************************************************************************)
JOB_MAX_AGE == 1       \* hours a job stays in the table (60 * 60 * 1000 ms)
MAX_CACHE_AGE == 24    \* hours a cache entry is served (24 * 60 * 60 * 1000 ms)

\* one advance of the clock carries it past the cache age limit (and so past the
\* job age limit)
TickHours == {MAX_CACHE_AGE + 1}

\* 'unknown' is what POST /scan stores when the request carries no url
Urls == {"unknown", "https://a.example/tos", "https://b.example/tos",
         "https://c.example/tos", "https://d.example/tos", "https://e.example/tos"}
Langs == {"fr", "en"}
Servers == {"manager", "map"}
Contents == {"text1", "text2"}
\* the request bodies: deviceId, url, user_language_preference, content
Requests ==
  {<<"d1", "https://a.example/tos", "fr", "text1">>,
   <<"d1", "https://a.example/tos", "en", "text1">>,
   <<"d1", "unknown", "en", "text1">>,
   <<"d2", "https://a.example/tos", "en", "text1">>}
ProviderOutcomes == {"valid", "unparsable", "missing_fields", "all_models_failed"}

NoJob == [present |-> FALSE, status |-> "none", url |-> "unknown", content |-> "text1",
          userLanguage |-> "en", deviceId |-> "d1", result |-> 0, error |-> "",
          creditDebited |-> FALSE, createdAt |-> 0]

\* seq is the entry's place in the Map's insertion order
NoEntry == [present |-> FALSE, reports |-> [l \in Langs |-> 0], createdAt |-> 0,
            lastAccessedAt |-> 0, seq |-> 0]

NoReport == [exists |-> FALSE, source |-> "none", lang |-> "en", urlHash |-> "unknown",
             contentHash |-> "text1"]

IdleTask == [pc |-> "idle", deviceId |-> "d1", url |-> "unknown", lang |-> "en",
             content |-> "text1", cached |-> 0, http |-> 0]

\* no callGemini call is being followed
NoCall == [pc |-> "idle", fallbackModels |-> <<>>, called |-> <<>>, outcomes |-> <<>>,
           text |-> 0, raised |-> ""]

NoHist == [hit |-> FALSE, debits |-> 0, debitFails |-> 0, debitErr |-> "", refunds |-> 0,
           providerCalls |-> 0, raised |-> "", servedId |-> 0, servedHash |-> ""]

\* the task has stopped: its locals are dropped
Stopped(pc, http) == [IdleTask EXCEPT !.pc = pc, !.http = http]

\* calculateUrlHash: the subject references of the model are already normalised,
\* and the hash is taken to be collision free
calculateUrlHash(url) == url

\* calculateContentHash: taken to be collision free on the contents of the model
calculateContentHash(content) == content

\* new URL(job.url) parses
UrlParses(url) == url # "unknown"

\* does the job table handed to processJob have the get method it calls?
\* (a Map has; JobManager offers getJob, not get)
JobsHasGet == server = "map"

\* does the catch around the pre-flight debit rethrow?  (it throws
\* 'Impossible de decrementer les credits'; the one around the cache-hit debit
\* only logs)
PreDebitFailureLogged == FALSE
PreDebitFailureRethrown == TRUE

\* job.status = 'running'
RunningJob(j) == [j EXCEPT !.status = "running"]

\* job.result = report; job.status = 'done'
DoneJob(j, rid) == [j EXCEPT !.result = rid, !.status = "done"]

\* job.status = 'error'; job.error = error.message
FailedJobRequeued(j, message) == [j EXCEPT !.status = "queued", !.error = message]
FailedJobStatusKept(j, message) == [j EXCEPT !.error = message]
FailedJob(j, message) == [j EXCEPT !.status = "error", !.error = message]

\* is the name deviceId bound where the catch block of processJob reads it?
\* it is declared by a const inside the try block.
DeviceIdBoundInCatch == FALSE

\* the entries the Map holds
Held(c) == {u \in DOMAIN c : c[u].present}

\* the place a new entry takes in the Map's insertion order
NextSeq(c) ==
  IF Held(c) = {} THEN 1
  ELSE 1 + (CHOOSE n \in {c[u].seq : u \in Held(c)} : \A u \in Held(c) : c[u].seq <= n)

\* a sorts before b: timeA - timeB < 0, or equal times and a earlier in the Map
\* (Array.prototype.sort is stable); lastAccessedAt is set on every entry
SortsBeforeByCreation(a, b) ==
  \/ a.createdAt < b.createdAt
  \/ a.createdAt = b.createdAt /\ a.seq < b.seq
SortsBefore(a, b) ==
  \/ a.lastAccessedAt < b.lastAccessedAt
  \/ a.lastAccessedAt = b.lastAccessedAt /\ a.seq < b.seq

\* the loop of enforceCacheLimit: delete the first n entries of the sorted array
RECURSIVE EvictOldest(_, _)
EvictOldest(c, n) ==
  IF n <= 0 \/ Held(c) = {} THEN c
  ELSE LET first == CHOOSE u \in Held(c) :
                      \A v \in Held(c) \ {u} : SortsBefore(c[u], c[v])
       IN EvictOldest([c EXCEPT ![first] = NoEntry], n - 1)

\* enforceCacheLimit: below the limit nothing is removed; at the limit the
\* size - MAX_CACHE_ENTRIES + 1 least recently accessed entries are
enforceCacheLimitOffByOne(c) ==
  LET size == Cardinality(Held(c)) IN
  IF size <= MAX_CACHE_ENTRIES THEN c
  ELSE EvictOldest(c, size - MAX_CACHE_ENTRIES + 1)

enforceCacheLimit(c) ==
  LET size == Cardinality(Held(c)) IN
  IF size < MAX_CACHE_ENTRIES THEN c
  ELSE EvictOldest(c, size - MAX_CACHE_ENTRIES + 1)

PipeInit ==
  /\ server \in Servers
  /\ now = 0
  /\ ticks = 0
  /\ jobs = [t \in Procs |-> NoJob]
  /\ task = [t \in Procs |-> IdleTask]
  /\ cache = [u \in Urls |-> NoEntry]
  /\ report = [t \in Procs |-> NoReport]
  /\ hist = [t \in Procs |-> NoHist]
  /\ gemini = NoCall

(***************************************************************************)
(* POST /scan                                                              *)
(***************************************************************************)
\* the handler up to: let user = await userService.getUser(deviceId)
StartScan(t, r) ==
  /\ task[t].pc = "idle"
  /\ op[t].pc = "idle"
  /\ task' = [task EXCEPT ![t] = [IdleTask EXCEPT !.pc = "scan_getUser", !.deviceId = r[1],
                                                  !.url = r[2], !.lang = r[3],
                                                  !.content = r[4]]]
  /\ op' = [op EXCEPT ![t] = Call("getUser", r[1], 0, "completed")]
  /\ UNCHANGED <<gemini, useJsonBin, users, lockFile, lockActive, ledgerHist, calls,
                 server, now, ticks, jobs, cache, report, hist>>

ScanRequest(t) == \E r \in Requests : StartScan(t, r)

\* getUser or createUser threw: the handler's catch answers 500
ScanFails(t) ==
  /\ task[t].pc \in {"scan_getUser", "scan_createUser"}
  /\ op[t].pc = "thrown"
  /\ task' = [task EXCEPT ![t] = Stopped("refused", 500)]
  /\ op' = [op EXCEPT ![t] = IdleOp]
  /\ UNCHANGED <<gemini, useJsonBin, users, lockFile, lockActive, ledgerHist, calls,
                 server, now, ticks, jobs, cache, report, hist>>

\* no record for the device: the newer server creates one, the older answers 404
ScanUserMissing(t) ==
  /\ task[t].pc = "scan_getUser"
  /\ op[t].pc = "returned"
  /\ ~op[t].user.exists
  /\ IF server = "manager"
       THEN /\ task' = [task EXCEPT ![t].pc = "scan_createUser"]
            /\ op' = [op EXCEPT ![t] = Call("createUser", task[t].deviceId, 0, "completed")]
       ELSE /\ task' = [task EXCEPT ![t] = Stopped("refused", 404)]
            /\ op' = [op EXCEPT ![t] = IdleOp]
  /\ UNCHANGED <<gemini, useJsonBin, users, lockFile, lockActive, ledgerHist, calls,
                 server, now, ticks, jobs, cache, report, hist>>

\* if (user.remainingScans <= 0) return res.status(403)
ScanQuotaExceeded(t) ==
  /\ task[t].pc \in {"scan_getUser", "scan_createUser"}
  /\ op[t].pc = "returned"
  /\ op[t].user.exists
  /\ op[t].user.remainingScans <= 0
  /\ task' = [task EXCEPT ![t] = Stopped("refused", 403)]
  /\ op' = [op EXCEPT ![t] = IdleOp]
  /\ UNCHANGED <<gemini, useJsonBin, users, lockFile, lockActive, ledgerHist, calls,
                 server, now, ticks, jobs, cache, report, hist>>

\* the job as POST /scan adds it to the table
QueuedJob(t) ==
  [present |-> TRUE, status |-> "queued", url |-> task[t].url,
   content |-> task[t].content, userLanguage |-> task[t].lang, deviceId |-> task[t].deviceId, result |-> 0,
   error |-> "", creditDebited |-> FALSE, createdAt |-> now]

\* the lookup of processJob: an entry past MAX_CACHE_AGE is deleted
CacheExpiredAfterAnHour(entry) == entry.present /\ now - entry.createdAt >= 1
CacheExpired(entry) == entry.present /\ now - entry.createdAt > MAX_CACHE_AGE
CacheHit(entry, lang) == entry.present /\ ~CacheExpired(entry) /\ entry.reports[lang] # 0

\* cachedEntry.lastAccessedAt = new Date().toISOString()
HitLeavesEntry(entry) == entry
HitTouches(entry) == [entry EXCEPT !.lastAccessedAt = now]

\* if (cacheAge > MAX_CACHE_AGE) cache.delete(urlHash)
ExpiredKept(c, h) == c
DeleteExpired(c, h) == IF CacheExpired(c[h]) THEN [c EXCEPT ![h] = NoEntry] ELSE c

\* the rest of the handler: the job is added, processJob is called and runs to
\* its first await (the cache lookup included), and the handler answers 200
ScanAccepted(t) ==
  /\ task[t].pc \in {"scan_getUser", "scan_createUser"}
  /\ op[t].pc = "returned"
  /\ op[t].user.exists
  /\ op[t].user.remainingScans > 0
  /\ LET h == calculateUrlHash(task[t].url)
         entry == cache[h]
         lang == task[t].lang
     IN IF ~JobsHasGet
          THEN \* const job = jobs.get(jobId) raises a TypeError: the promise of
               \* processJob is rejected before the job is touched
               /\ jobs' = [jobs EXCEPT ![t] = QueuedJob(t)]
               /\ task' = [task EXCEPT ![t] = Stopped("rejected", 200)]
               /\ op' = [op EXCEPT ![t] = IdleOp]
               /\ UNCHANGED <<cache, report, hist>>
        ELSE IF CacheHit(entry, lang)
          THEN /\ jobs' = [jobs EXCEPT ![t] = RunningJob(QueuedJob(t))]
               /\ cache' = [cache EXCEPT ![h] = HitTouches(@)]
               /\ report' = [report EXCEPT
                               ![entry.reports[lang]].source = "cache",
                               ![entry.reports[lang]].contentHash =
                                  calculateContentHash(task[t].content)]
               /\ task' = [task EXCEPT ![t].pc = "hit_debit", ![t].http = 200,
                                       ![t].cached = entry.reports[lang]]
               /\ op' = [op EXCEPT ![t] = Call("decrementCredits", task[t].deviceId, 0, "completed")]
               /\ hist' = [hist EXCEPT ![t].hit = TRUE,
                                       ![t].servedId = entry.reports[lang],
                                       ![t].servedHash = report'[entry.reports[lang]].contentHash]
        ELSE   /\ jobs' = [jobs EXCEPT ![t] = RunningJob(QueuedJob(t))]
               /\ cache' = DeleteExpired(cache, h)
               /\ task' = [task EXCEPT ![t].pc = "load_prompt", ![t].http = 200]
               /\ op' = [op EXCEPT ![t] = IdleOp]
               /\ UNCHANGED <<report, hist>>
  /\ UNCHANGED <<gemini, useJsonBin, users, lockFile, lockActive, ledgerHist, calls,
                 server, now, ticks>>

(***************************************************************************)
(* processJob after its first await                                        *)
(***************************************************************************)
\* the catch block: the refund when the job was debited, then status and error
CatchBlock(t, message, h) ==
  IF jobs[t].creditDebited /\ ~DeviceIdBoundInCatch
    THEN \* job.creditDebited && userService && deviceId: reading deviceId raises
         \* a ReferenceError inside the catch block; the promise is rejected
         /\ task' = [task EXCEPT ![t] = Stopped("rejected", 200)]
         /\ op' = [op EXCEPT ![t] = IdleOp]
         /\ hist' = [h EXCEPT ![t].raised = message]
         /\ UNCHANGED jobs
  ELSE IF jobs[t].creditDebited
    THEN /\ task' = [task EXCEPT ![t].pc = "refund"]
         /\ op' = [op EXCEPT ![t] = Call("addCredits", jobs[t].deviceId, 1, "completed")]
         /\ hist' = [h EXCEPT ![t].raised = message]
         /\ UNCHANGED jobs
  ELSE   /\ jobs' = [jobs EXCEPT ![t] = FailedJob(@, message)]
         /\ task' = [task EXCEPT ![t] = Stopped("settled", 200)]
         /\ op' = [op EXCEPT ![t] = IdleOp]
         /\ hist' = [h EXCEPT ![t].raised = message]

\* await loadPromptTemplate() returns; the prompt is built and the debit is called
LoadPrompt(t) ==
  /\ task[t].pc = "load_prompt"
  /\ task' = [task EXCEPT ![t].pc = "pre_debit"]
  /\ op' = [op EXCEPT ![t] = Call("decrementCredits", jobs[t].deviceId, 0, "completed")]
  /\ UNCHANGED <<gemini, useJsonBin, users, lockFile, lockActive, ledgerHist, calls,
                 server, now, ticks, jobs, cache, report, hist>>

\* await loadPromptTemplate() throws: no template file can be read
LoadPromptFails(t) ==
  /\ task[t].pc = "load_prompt"
  /\ CatchBlock(t, "Impossible de charger le prompt template", hist)
  /\ UNCHANGED <<gemini, useJsonBin, users, lockFile, lockActive, ledgerHist, calls,
                 server, now, ticks, cache, report>>

\* the cache-hit debit returned or threw: job.creditDebited is not assigned
HitDebitedFlagged(j, ok) == [j EXCEPT !.creditDebited = ok]
HitDebited(j, ok) == j

\* the ledger call the pipeline awaits has returned or thrown
LedgerCallEnds(t) ==
  /\ task[t].pc \in {"hit_debit", "pre_debit", "refund"}
  /\ op[t].pc \in {"returned", "thrown"}
  /\ LET ok == op[t].pc = "returned" IN
     CASE task[t].pc = "hit_debit" ->
            \* the catch around the debit only logs; job.result, job.status, return
            /\ jobs' = [jobs EXCEPT ![t] = DoneJob(HitDebited(@, ok), task[t].cached)]
            /\ task' = [task EXCEPT ![t] = Stopped("settled", 200)]
            /\ op' = [op EXCEPT ![t] = IdleOp]
            /\ hist' = [hist EXCEPT ![t].debits = IF ok THEN @ + 1 ELSE @,
                                    ![t].debitFails = IF ok THEN @ ELSE @ + 1,
                                    ![t].debitErr = op[t].err]
       [] task[t].pc = "pre_debit" /\ (ok \/ ~PreDebitFailureRethrown) ->
            \* job.creditDebited = true (after a debit that returned); callGemini is called
            /\ jobs' = [jobs EXCEPT ![t].creditDebited = ok]
            /\ task' = [task EXCEPT ![t].pc = "provider"]
            /\ op' = [op EXCEPT ![t] = IdleOp]
            /\ hist' = [hist EXCEPT ![t].debits = IF ok THEN @ + 1 ELSE @,
                                    ![t].debitFails = IF ok THEN @ ELSE @ + 1,
                                    ![t].debitErr = op[t].err,
                                    ![t].providerCalls = @ + 1]
       [] task[t].pc = "pre_debit" /\ ~ok /\ PreDebitFailureRethrown ->
            CatchBlock(t, "Impossible de decrementer les credits",
                       [hist EXCEPT ![t].debitFails = @ + 1, ![t].debitErr = op[t].err])
       [] task[t].pc = "refund" ->
            \* the refund returned or its failure was logged; then status and error
            /\ jobs' = [jobs EXCEPT ![t] = FailedJob(@, hist[t].raised)]
            /\ task' = [task EXCEPT ![t] = Stopped("settled", 200)]
            /\ op' = [op EXCEPT ![t] = IdleOp]
            /\ hist' = [hist EXCEPT ![t].refunds = IF ok THEN @ + 1 ELSE @]
  /\ UNCHANGED <<gemini, useJsonBin, users, lockFile, lockActive, ledgerHist, calls,
                 server, now, ticks, cache, report>>

\* the report processJob builds from a valid answer: metadata.source is 'ai'
AiReport(j) ==
  [exists |-> TRUE, source |-> "ai", lang |-> j.userLanguage,
   urlHash |-> calculateUrlHash(j.url), contentHash |-> calculateContentHash(j.content)]

\* a new cache entry holding one language
NewEntry(lang, rid, seq) ==
  [present |-> TRUE, reports |-> [l \in Langs |-> IF l = lang THEN rid ELSE 0],
   createdAt |-> now, lastAccessedAt |-> now, seq |-> seq]

\* existing.reports[userLanguage] = report; existing.lastAccessedAt = now
MergeLanguageReplacing(entry, lang, rid) ==
  [entry EXCEPT !.reports = [l \in Langs |-> IF l = lang THEN rid ELSE 0],
                !.lastAccessedAt = now]
MergeLanguageRenewing(entry, lang, rid) ==
  [entry EXCEPT !.reports[lang] = rid, !.lastAccessedAt = now, !.createdAt = now]
MergeLanguage(entry, lang, rid) ==
  [entry EXCEPT !.reports[lang] = rid, !.lastAccessedAt = now]

\* callGemini returned a text that parses and has site_name and categories:
\* metadata, the cache store, then job.result and job.status = 'done'
ProviderReturnsValid(t) ==
  /\ task[t].pc = "provider"
  /\ LET h == calculateUrlHash(jobs[t].url)
         lang == jobs[t].userLanguage
     IN IF cache[h].present
          THEN /\ cache' = [cache EXCEPT ![h] = MergeLanguage(@, lang, t)]
               /\ report' = [report EXCEPT ![t] = AiReport(jobs[t])]
               /\ jobs' = [jobs EXCEPT ![t] = DoneJob(@, t)]
               /\ task' = [task EXCEPT ![t] = Stopped("settled", 200)]
               /\ op' = [op EXCEPT ![t] = IdleOp]
               /\ UNCHANGED hist
        ELSE IF UrlParses(jobs[t].url)
          THEN /\ cache' = LET c == enforceCacheLimit(cache)
                              IN [c EXCEPT ![h] = NewEntry(lang, t, NextSeq(c))]
               /\ report' = [report EXCEPT ![t] = AiReport(jobs[t])]
               /\ jobs' = [jobs EXCEPT ![t] = DoneJob(@, t)]
               /\ task' = [task EXCEPT ![t] = Stopped("settled", 200)]
               /\ op' = [op EXCEPT ![t] = IdleOp]
               /\ UNCHANGED hist
        ELSE   \* enforceCacheLimit() has run when new URL(job.url) throws
               /\ cache' = enforceCacheLimit(cache)
               /\ CatchBlock(t, "Invalid URL", hist)
               /\ UNCHANGED report
  /\ UNCHANGED <<gemini, useJsonBin, users, lockFile, lockActive, ledgerHist, calls,
                 server, now, ticks>>

\* callGemini threw (every model failed), or its text does not parse, or the
\* parsed report lacks site_name or categories
ProviderFails(t) ==
  /\ task[t].pc = "provider"
  /\ \E outcome \in ProviderOutcomes \ {"valid"} : CatchBlock(t, outcome, hist)
  /\ UNCHANGED <<gemini, useJsonBin, users, lockFile, lockActive, ledgerHist, calls,
                 server, now, ticks, cache, report>>

(***************************************************************************)
(* The clock and the periodic sweeps                                       *)
(***************************************************************************)
Advance(d) ==
  /\ ticks < MaxTicks
  /\ now' = now + d
  /\ ticks' = ticks + 1
  /\ UNCHANGED <<gemini, useJsonBin, users, lockFile, lockActive, op, ledgerHist, calls,
                 server, jobs, task, cache, report, hist>>

Tick == \E d \in TickHours : Advance(d)

\* the job sweep (JobManager.cleanup, or the older server's setInterval)
JobSweep ==
  /\ jobs' = [t \in DOMAIN jobs |->
                IF jobs[t].present /\ now - jobs[t].createdAt > JOB_MAX_AGE
                  THEN [jobs[t] EXCEPT !.present = FALSE] ELSE jobs[t]]
  /\ UNCHANGED <<gemini, useJsonBin, users, lockFile, lockActive, op, ledgerHist, calls,
                 server, now, ticks, task, cache, report, hist>>

\* the loop of the sweep: delete every entry with cacheAge > MAX_CACHE_AGE
SweptByAccess(c) ==
  [u \in DOMAIN c |->
     IF c[u].present /\ now - c[u].lastAccessedAt > MAX_CACHE_AGE THEN NoEntry ELSE c[u]]
Swept(c) == [u \in DOMAIN c |-> IF CacheExpired(c[u]) THEN NoEntry ELSE c[u]]

\* the hourly cache sweep
CacheSweep ==
  /\ cache' = Swept(cache)
  /\ UNCHANGED <<gemini, useJsonBin, users, lockFile, lockActive, op, ledgerHist, calls,
                 server, now, ticks, jobs, task, report, hist>>

PipelineStep(t) ==
  \/ ScanRequest(t)
  \/ ScanFails(t)
  \/ ScanUserMissing(t)
  \/ ScanQuotaExceeded(t)
  \/ ScanAccepted(t)
  \/ LoadPrompt(t)
  \/ LoadPromptFails(t)
  \/ LedgerCallEnds(t)
  \/ ProviderReturnsValid(t)
  \/ ProviderFails(t)


(***************************************************************************)
(* GET /report                                                             *)
(***************************************************************************)
\* const cachedEntry = cache.get(url_hash): the handler reads the entry
LookedUpTouched(entry) == [entry EXCEPT !.lastAccessedAt = now]
LookedUp(entry) == entry

\* the handler answers the report in the language asked for ('en' when the
\* lang parameter is neither 'fr' nor 'en'), or 404
ReportLookup(t, h, lang) ==
  /\ task[t].pc = "idle"
  /\ op[t].pc = "idle"
  /\ LET language == IF lang \in Langs THEN lang ELSE "en"
         found == cache[h].present /\ cache[h].reports[language] # 0
     IN task' = [task EXCEPT ![t] =
                   [Stopped("answered", IF found THEN 200 ELSE 404)
                      EXCEPT !.cached = IF found THEN cache[h].reports[language] ELSE 0]]
  /\ cache' = [cache EXCEPT ![h] = LookedUp(@)]
  /\ UNCHANGED <<gemini, useJsonBin, users, lockFile, lockActive, op, ledgerHist, calls,
                 server, now, ticks, jobs, report, hist>>

(***************************************************************************)
(* LedgerSpec: clients call the ledger methods directly and concurrently.  *)
(***************************************************************************)
InitHist(u) ==
  [d \in DeviceIds |-> [init |-> u[d].remainingScans, debits |-> 0, credits |-> 0, writes |-> 0]]

\* the calls the clients draw from: the pipeline's debit and refund, the payment
\* webhook's recordPurchase, and the request handlers' getUser / createUser
ClientOps ==
  {<<"decrementCredits", "d1", 0, "completed">>,
   <<"decrementCredits", "d2", 0, "completed">>,
   <<"addCredits", "d1", 1, "completed">>,
   <<"addCredits", "d1", 0, "completed">>,
   <<"recordPurchase", "d1", 2, "completed">>,
   <<"recordPurchase", "d1", 3, "completed">>,
   <<"recordPurchase", "d1", 2, "failed">>,
   <<"getUser", "d1", 0, "completed">>,
   <<"createUser", "d2", 0, "completed">>}

LedgerInit ==
  /\ useJsonBin \in BOOLEAN
  /\ \E n \in 0..MaxCredits : users = [d \in DeviceIds |-> IF d = "d1" THEN StoredUser(n) ELSE NoUser]
  /\ lockFile = "absent"
  /\ lockActive = FALSE
  /\ op = [p \in Procs |-> IdleOp]
  /\ ledgerHist = InitHist(users)
  /\ calls = 0
  /\ PipeInit

ClientCall(p) ==
  /\ op[p].pc = "idle"
  /\ calls < MaxCalls
  /\ \E c \in ClientOps : op' = [op EXCEPT ![p] = Call(c[1], c[2], c[3], c[4])]
  /\ calls' = calls + 1
  /\ UNCHANGED <<gemini, useJsonBin, users, lockFile, lockActive, ledgerHist, pipeVars>>

ClientReturn(p) ==
  /\ op[p].pc \in {"returned", "thrown"}
  /\ op' = [op EXCEPT ![p] = IdleOp]
  /\ UNCHANGED <<gemini, useJsonBin, users, lockFile, lockActive, ledgerHist, calls, pipeVars>>

LedgerNext ==
  \/ \E p \in Procs : ClientCall(p)
  \/ \E p \in Procs : ClientReturn(p)
  \/ \E p \in Procs : LedgerStep(p)
  \/ LockAges

LedgerSpec == LedgerInit /\ [][LedgerNext]_vars

(***************************************************************************)
(* RecoverySpec: the ledger over the local file, started while users.lock  *)
(* is on disk and no operation of this process created it: the process     *)
(* that held it stopped between acquireLock and releaseLock.  Every        *)
(* pending fs call or timer of an operation completes (weak fairness of    *)
(* the operation's steps), and time passes (weak fairness of LockAges).    *)
(***************************************************************************)
RecoveryInit ==
  /\ useJsonBin = FALSE
  /\ \E n \in 0..MaxCredits : users = [d \in DeviceIds |-> IF d = "d1" THEN StoredUser(n) ELSE NoUser]
  /\ lockFile = "fresh"
  /\ lockActive = FALSE
  /\ op = [p \in Procs |-> IdleOp]
  /\ ledgerHist = InitHist(users)
  /\ calls = 0
  /\ server = "map"
  /\ now = 0
  /\ ticks = 0
  /\ jobs = [t \in Procs |-> NoJob]
  /\ task = [t \in Procs |-> IdleTask]
  /\ cache = [u \in Urls |-> NoEntry]
  /\ report = [t \in Procs |-> NoReport]
  /\ hist = [t \in Procs |-> NoHist]
  /\ gemini = NoCall

\* the calls made after the restart: the pipeline's debit and refund and a
\* handler's getUser
RecoveryOps ==
  {<<"decrementCredits", "d1", 0, "completed">>,
   <<"addCredits", "d1", 1, "completed">>,
   <<"getUser", "d1", 0, "completed">>}

RecoveryCall(p) ==
  /\ op[p].pc = "idle"
  /\ calls < MaxCalls
  /\ \E c \in RecoveryOps : op' = [op EXCEPT ![p] = Call(c[1], c[2], c[3], c[4])]
  /\ calls' = calls + 1
  /\ UNCHANGED <<gemini, useJsonBin, users, lockFile, lockActive, ledgerHist, pipeVars>>

RecoveryNext ==
  \/ \E p \in Procs : RecoveryCall(p)
  \/ \E p \in Procs : ClientReturn(p)
  \/ \E p \in Procs : LedgerStep(p)
  \/ LockAges

RecoverySpec ==
  /\ RecoveryInit
  /\ [][RecoveryNext]_vars
  /\ \A p \in Procs : WF_vars(LedgerStep(p))
  /\ WF_vars(LockAges)

(***************************************************************************)
(* Spec: requests arrive at POST /scan and their pipelines run concurrently *)
(***************************************************************************)
Init == LedgerInit

Next ==
  \/ \E t \in Procs : PipelineStep(t)
  \/ \E p \in Procs : LedgerStep(p)
  \/ LockAges
  \/ Tick
  \/ JobSweep
  \/ CacheSweep

Spec == Init /\ [][Next]_vars

(***************************************************************************)
(* CacheSpec: requests served by the Map-based server over the remote      *)
(* store, and cache lookups through GET /report.  The server has been up   *)
(* for a while: its cache is empty, or full of reports made for earlier    *)
(* requests whose jobs have been swept.                                    *)
(***************************************************************************)
\* as many requests as in Spec
CacheProcs == Procs

\* the subjects, in the order in which the earlier requests stored them
Subjects == <<"https://a.example/tos", "https://b.example/tos",
              "https://c.example/tos", "https://d.example/tos",
              "https://e.example/tos">>

\* the reports made for the earlier requests
Earlier == {Cardinality(CacheProcs) + k : k \in 1..MAX_CACHE_ENTRIES}

EmptyCache == [u \in Urls |-> NoEntry]
FullCache ==
  [u \in Urls |->
     IF \E k \in 1..MAX_CACHE_ENTRIES : Subjects[k] = u
       THEN LET k == CHOOSE k \in 1..MAX_CACHE_ENTRIES : Subjects[k] = u
            IN [present |-> TRUE,
                reports |-> [l \in Langs |-> IF l = "en" THEN Cardinality(CacheProcs) + k ELSE 0],
                createdAt |-> 0, lastAccessedAt |-> 0, seq |-> k]
       ELSE NoEntry]

EarlierReport(c, rid) ==
  IF \E u \in Held(c) : c[u].reports["en"] = rid
    THEN AiReport([NoJob EXCEPT
                     !.url = CHOOSE u \in Held(c) : c[u].reports["en"] = rid])
    ELSE NoReport

\* a request names a subject of the cache, in either language and with either
\* content, or a subject not stored yet, or no subject
CacheRequests ==
  {<<"d1", Subjects[1], "en", "text1">>,
   <<"d1", Subjects[2], "en", "text1">>,
   <<"d1", Subjects[2], "en", "text2">>,
   <<"d1", Subjects[2], "fr", "text1">>,
   <<"d1", Subjects[MAX_CACHE_ENTRIES + 1], "en", "text1">>,
   <<"d1", Subjects[MAX_CACHE_ENTRIES + 2], "en", "text1">>,
   <<"d1", "unknown", "en", "text1">>}

\* an hour passes, or more than the cache age limit
CacheTickHours == {1, MAX_CACHE_AGE + 1}

CacheInit ==
  /\ useJsonBin = TRUE
  /\ users = [d \in DeviceIds |-> IF d = "d1" THEN NewUser ELSE NoUser]
  /\ lockFile = "absent"
  /\ lockActive = FALSE
  /\ op = [p \in CacheProcs |-> IdleOp]
  /\ ledgerHist = InitHist(users)
  /\ calls = 0
  /\ server = "map"
  /\ now = JOB_MAX_AGE + 1
  /\ ticks = 0
  /\ jobs = [t \in CacheProcs |-> NoJob]
  /\ task = [t \in CacheProcs |-> IdleTask]
  /\ cache \in {EmptyCache, FullCache}
  /\ report = [t \in CacheProcs \cup Earlier |->
                 IF t \in Earlier THEN EarlierReport(cache, t) ELSE NoReport]
  /\ hist = [t \in CacheProcs |-> NoHist]
  /\ gemini = NoCall

\* requests are numbered in the order they arrive
MayArrive(t) == \A u \in CacheProcs : u < t => task[u].pc # "idle"

CacheScan(t) == MayArrive(t) /\ \E r \in CacheRequests : StartScan(t, r)

CacheLookup(t) ==
  /\ MayArrive(t)
  /\ \E u \in {Subjects[2], Subjects[MAX_CACHE_ENTRIES + 1]}, lang \in Langs \cup {"de"} :
       ReportLookup(t, calculateUrlHash(u), lang)

CacheTick == \E d \in CacheTickHours : Advance(d)

CacheNext ==
  \/ \E t \in CacheProcs : CacheScan(t)
  \/ \E t \in CacheProcs : CacheLookup(t)
  \/ \E t \in CacheProcs : ScanAccepted(t)
  \/ \E t \in CacheProcs : LoadPrompt(t)
  \/ \E t \in CacheProcs : LedgerCallEnds(t)
  \/ \E t \in CacheProcs : ProviderReturnsValid(t)
  \/ \E t \in CacheProcs : Read(t)
  \/ \E t \in CacheProcs : Write(t)
  \/ CacheTick
  \/ CacheSweep

CacheSpec == CacheInit /\ [][CacheNext]_vars

(***************************************************************************)
(* PurchaseSpec: the payment webhook records purchases one after another,  *)
(* over a store that answers.                                              *)
(***************************************************************************)
\* packs of 2, 5 and 10 euros, an amount that is no pack, a missing amount, a
\* payment that did not complete, and an owner the ledger does not know
PurchaseOps ==
  {<<"recordPurchase", "d1", 2, "completed">>,
   <<"recordPurchase", "d1", 5, "completed">>,
   <<"recordPurchase", "d1", 10, "completed">>,
   <<"recordPurchase", "d1", 3, "completed">>,
   <<"recordPurchase", "d1", 0, "completed">>,
   <<"recordPurchase", "d1", 2, "failed">>,
   <<"recordPurchase", "d2", 2, "completed">>}

PurchaseCall(p) ==
  /\ \A q \in Procs : op[q].pc = "idle"
  /\ calls < MaxCalls
  /\ \E c \in PurchaseOps : op' = [op EXCEPT ![p] = Call(c[1], c[2], c[3], c[4])]
  /\ calls' = calls + 1
  /\ UNCHANGED <<gemini, useJsonBin, users, lockFile, lockActive, ledgerHist, pipeVars>>

PurchaseNext ==
  \/ \E p \in Procs : PurchaseCall(p)
  \/ \E p \in Procs : ClientReturn(p)
  \/ \E p \in Procs : AcquireTry(p)
  \/ \E p \in Procs : AcquireOk(p)
  \/ \E p \in Procs : Read(p)
  \/ \E p \in Procs : Write(p)
  \/ \E p \in Procs : ReleaseUnlink(p)

PurchaseSpec == LedgerInit /\ [][PurchaseNext]_vars

(***************************************************************************)
(* JobStoreSpec: the JobManager on its own.  Jobs are added, updated and   *)
(* swept; job ids are taken in increasing order, which is also the         *)
(* insertion order of the Map.                                             *)
(***************************************************************************)
JobIds == 1..MaxJobIds

\* this.jobs: the jobs the Map holds
Stored(js) == {id \in DOMAIN js : js[id].present}

\* cleanup(force): delete the jobs created before the cutoff and, when forced,
\* the jobs in status done
cleanupSparesActive(js, force) ==
  [id \in DOMAIN js |->
     IF js[id].present
        /\ (\/ js[id].createdAt < now - JOB_MAX_AGE /\ js[id].status \notin {"queued", "running"}
            \/ (force /\ js[id].status = "done"))
       THEN [js[id] EXCEPT !.present = FALSE]
       ELSE js[id]]
cleanup(js, force) ==
  [id \in DOMAIN js |->
     IF js[id].present
        /\ (js[id].createdAt < now - JOB_MAX_AGE \/ (force /\ js[id].status = "done"))
       THEN [js[id] EXCEPT !.present = FALSE]
       ELSE js[id]]

\* removeOldest(count): sort by createdAt (a stable sort), delete the first count
RECURSIVE removeOldest(_, _)
removeOldest(js, count) ==
  IF count <= 0 \/ Stored(js) = {} THEN js
  ELSE LET oldest == CHOOSE id \in Stored(js) :
                       \A other \in Stored(js) \ {id} :
                         \/ js[id].createdAt < js[other].createdAt
                         \/ js[id].createdAt = js[other].createdAt /\ id < other
       IN removeOldest([js EXCEPT ![oldest].present = FALSE], count - 1)

\* Math.floor(this.maxJobs * 0.1)
TenPercent(n) == n \div 10

\* addJob(id, jobData)
addJob(js, id, jobData) ==
  LET cleaned == IF Cardinality(Stored(js)) >= maxJobs THEN cleanup(js, TRUE) ELSE js
      room == IF Cardinality(Stored(js)) >= maxJobs /\ Cardinality(Stored(cleaned)) >= maxJobs
                THEN removeOldest(cleaned, TenPercent(maxJobs))
                ELSE cleaned
  IN [room EXCEPT ![id] = [jobData EXCEPT !.present = TRUE, !.createdAt = now]]

JobStoreInit ==
  /\ useJsonBin = TRUE
  /\ users = [d \in DeviceIds |-> IF d = "d1" THEN NewUser ELSE NoUser]
  /\ lockFile = "absent"
  /\ lockActive = FALSE
  /\ op = [p \in Procs |-> IdleOp]
  /\ ledgerHist = InitHist(users)
  /\ calls = 0
  /\ server = "manager"
  /\ now = 0
  /\ ticks = 0
  /\ jobs = [id \in JobIds |-> NoJob]
  /\ task = [t \in Procs |-> IdleTask]
  /\ cache = [u \in Urls |-> NoEntry]
  /\ report = [t \in Procs |-> NoReport]
  /\ hist = [t \in Procs |-> NoHist]
  /\ gemini = NoCall

\* POST /scan: jobManager.addJob(jobId, {status: 'queued', ...})
StoreAddJob ==
  /\ \E id \in JobIds :
       /\ jobs[id].status = "none"
       /\ \A lower \in JobIds : lower < id => jobs[lower].status # "none"
       /\ jobs' = addJob(jobs, id, [NoJob EXCEPT !.status = "queued"])
  /\ UNCHANGED <<gemini, useJsonBin, users, lockFile, lockActive, op, ledgerHist, calls,
                 server, now, ticks, task, cache, report, hist>>

\* updateJob(id, {status}): nothing happens when the job is not in the Map
StoreUpdateJob ==
  /\ \E id \in JobIds, status \in {"running", "done", "error"} :
       /\ jobs[id].present
       /\ jobs[id].status # status
       /\ jobs' = [jobs EXCEPT ![id].status = status]
  /\ UNCHANGED <<gemini, useJsonBin, users, lockFile, lockActive, op, ledgerHist, calls,
                 server, now, ticks, task, cache, report, hist>>

\* the periodic cleanup() of the constructor's setInterval
StoreCleanup ==
  /\ jobs' = cleanup(jobs, FALSE)
  /\ jobs' # jobs
  /\ UNCHANGED <<gemini, useJsonBin, users, lockFile, lockActive, op, ledgerHist, calls,
                 server, now, ticks, task, cache, report, hist>>

\* an hour passes, or more than maxAge
StoreTick == \E d \in {1, JOB_MAX_AGE + 1} : Advance(d)

JobStoreNext ==
  \/ StoreAddJob
  \/ StoreUpdateJob
  \/ StoreCleanup
  \/ StoreTick

JobStoreSpec == JobStoreInit /\ [][JobStoreNext]_vars

(***************************************************************************)
(* GeminiSpec: callGemini on its own.  A call gets a list of models; each  *)
(* model in turn answers with a text, or fails (the fetch rejects, the     *)
(* body is empty, is not JSON, is an HTTP error, or holds no text).        *)
(***************************************************************************)
Models == 1..MaxModels

\* the lists of distinct models of length 0..MaxModels
ModelLists ==
  {l \in UNION {[1..n -> Models] : n \in 0..MaxModels} :
     \A i, j \in DOMAIN l : l[i] = l[j] => i = j}

\* what sends a model's attempt to the catch inside the loop
Failures == {"fetch_rejects", "empty_body", "not_json", "http_error", "no_text"}

\* data.candidates[0].content.parts[0].text of the answer of model
TextOf(model) == model

\* the catch inside the loop: lastError = error, then the next model, or the
\* throw after the loop
AfterFailureGivesUp(g) == [g EXCEPT !.pc = "thrown", !.raised = g.outcomes[Len(g.outcomes)]]
AfterFailure(g) ==
  IF Len(g.called) < Len(g.fallbackModels)
    THEN g
    ELSE [g EXCEPT !.pc = "thrown", !.raised = g.outcomes[Len(g.outcomes)]]

GeminiInit ==
  /\ useJsonBin = TRUE
  /\ users = [d \in DeviceIds |-> NoUser]
  /\ lockFile = "absent"
  /\ lockActive = FALSE
  /\ op = [p \in Procs |-> IdleOp]
  /\ ledgerHist = InitHist(users)
  /\ calls = 0
  /\ server = "map"
  /\ now = 0
  /\ ticks = 0
  /\ jobs = [t \in Procs |-> NoJob]
  /\ task = [t \in Procs |-> IdleTask]
  /\ cache = [u \in Urls |-> NoEntry]
  /\ report = [t \in Procs |-> NoReport]
  /\ hist = [t \in Procs |-> NoHist]
  /\ gemini = NoCall

\* callGemini(prompt, fallbackModels, apiKey) up to its first fetch; with an
\* empty list the loop is skipped and the call throws (lastError is null)
CallGemini(models) ==
  /\ gemini.pc = "idle"
  /\ gemini' = IF models = <<>>
                 THEN [NoCall EXCEPT !.pc = "thrown", !.raised = "undefined"]
                 ELSE [NoCall EXCEPT !.pc = "fetch", !.fallbackModels = models]
  /\ UNCHANGED <<ledgerVars, pipeVars>>

\* the model answers 200 with a text: return text
ModelAnswers ==
  /\ gemini.pc = "fetch"
  /\ LET model == gemini.fallbackModels[Len(gemini.called) + 1]
     IN gemini' = [gemini EXCEPT !.pc = "returned",
                                 !.called = Append(@, model),
                                 !.outcomes = Append(@, "ok"),
                                 !.text = TextOf(model)]
  /\ UNCHANGED <<ledgerVars, pipeVars>>

\* the attempt with the model fails
ModelFails ==
  /\ gemini.pc = "fetch"
  /\ \E failure \in Failures :
       LET model == gemini.fallbackModels[Len(gemini.called) + 1]
       IN gemini' = AfterFailure([gemini EXCEPT !.called = Append(@, model),
                                                !.outcomes = Append(@, failure)])
  /\ UNCHANGED <<ledgerVars, pipeVars>>

GeminiNext ==
  \/ \E models \in ModelLists : CallGemini(models)
  \/ ModelAnswers
  \/ ModelFails

GeminiSpec == GeminiInit /\ [][GeminiNext]_vars

(***************************************************************************)
(* Properties of the pipeline's credit accounting and of job status.       *)
(***************************************************************************)
\* the processJob run of task t is over: its promise resolved or rejected
RunEnded(t) == task[t].pc \in {"settled", "rejected"}

\* C1: a job whose credit was debited and whose run then failed (provider
\* failure, unparsable or invalid report, failure while storing in the cache)
\* ends in status error with exactly one refund of one credit applied to its
\* owner, so the owner's net charge for the job is zero.
C1_DebitedFailureIsRefunded ==
  \A t \in Procs :
    (jobs[t].creditDebited /\ hist[t].raised # "" /\ RunEnded(t))
      => /\ jobs[t].status = "error"
         /\ hist[t].refunds = 1
         /\ hist[t].debits - hist[t].refunds = 0

\* C2: a job in status done was charged exactly once: one successful debit of
\* its owner by this job, and no refund.
C2_DoneJobChargedOnce ==
  \A t \in Procs :
    jobs[t].status = "done" => (hist[t].debits = 1 /\ hist[t].refunds = 0)

\* C3: on a cache hit whose debit fails with QUOTA_EXCEEDED or USER_NOT_FOUND
\* the job ends in status error with an error message and no result, the
\* provider is not called and no refund is issued.
C3_HitDebitFailureIsError ==
  \A t \in Procs :
    (hist[t].hit /\ hist[t].debitErr \in {"QUOTA_EXCEEDED", "USER_NOT_FOUND"} /\ RunEnded(t))
      => /\ jobs[t].status = "error"
         /\ jobs[t].error # ""
         /\ jobs[t].result = 0
         /\ hist[t].providerCalls = 0
         /\ hist[t].refunds = 0

\* C4: every job on which processJob was started reaches done or error.  Once
\* the run is over nothing writes the job's status any more, so the job has
\* to hold a terminal status at that point.
C4_EndedRunHasTerminalStatus ==
  \A t \in Procs : RunEnded(t) => jobs[t].status \in {"done", "error"}

\* C5: a job's status only moves forward, queued -> running -> done | error
\* (a job is made queued and may be set running before the handler yields);
\* no step leaves done or error, goes back to queued, or goes from queued
\* straight to a terminal status.
StatusMoves ==
  {<<"none", "queued">>, <<"none", "running">>, <<"queued", "running">>,
   <<"running", "done">>, <<"running", "error">>}

C5_StatusMovesForward ==
  [][\A t \in Procs :
       jobs'[t].status # jobs[t].status
         => <<jobs[t].status, jobs'[t].status>> \in StatusMoves]_vars

C5_Witness ==
  \E t, u \in Procs : jobs[t].status = "done" /\ jobs[u].status = "error"

\* C6: for every job in the job table, result is set only if status is done,
\* error is set only if status is error, and never both.
C6_ResultAndErrorMatchStatus ==
  \A t \in Procs :
    jobs[t].present
      => /\ jobs[t].result # 0 => jobs[t].status = "done"
         /\ jobs[t].error # "" => jobs[t].status = "error"
         /\ ~(jobs[t].result # 0 /\ jobs[t].error # "")

C6_Witness ==
  \E t, u \in Procs :
    /\ jobs[t].present /\ jobs[t].result # 0
    /\ jobs[u].present /\ jobs[u].error # ""

\* C7: on a cache miss the provider is called only after a debit of the job's
\* owner by this job has succeeded; when the pre-flight debit fails the job
\* goes to error, the provider is not called and no refund is issued.
C7_ProviderOnlyAfterDebit ==
  \A t \in Procs :
    /\ hist[t].providerCalls > 0
         => /\ ~hist[t].hit
            /\ hist[t].debits = 1
            /\ ledgerHist[jobs[t].deviceId].debits >= 1
    /\ task[t].pc = "provider" => jobs[t].creditDebited
    /\ (~hist[t].hit /\ hist[t].debitFails > 0 /\ RunEnded(t))
         => /\ jobs[t].status = "error"
            /\ hist[t].providerCalls = 0
            /\ hist[t].refunds = 0

C7_Witness ==
  \E t, u \in Procs :
    /\ hist[t].providerCalls = 1 /\ hist[t].debits = 1
    /\ ~hist[u].hit /\ hist[u].debitFails = 1 /\ jobs[u].status = "error"

(***************************************************************************)
(* Properties of the ledger.                                               *)
(***************************************************************************)
\* no ledger operation is in flight
LedgerQuiet == \A p \in Procs : op[p].pc \in {"idle", "returned", "thrown"}

\* only owner d's record has been written so far
OnlyOwnerWritten(d) == \A e \in DeviceIds \ {d} : ledgerHist[e].writes = 0

\* C8: concurrent debits and credits on the same owner's ledger take effect
\* atomically and one after another, with no lost update: once they have
\* returned, the balance is the start balance minus the successful debits
\* plus the credits applied (two successful debits lower it by exactly 2).
C8_NoLostUpdate ==
  \A d \in DeviceIds :
    (LedgerQuiet /\ OnlyOwnerWritten(d) /\ users[d].exists)
      => users[d].remainingScans
           = ledgerHist[d].init - ledgerHist[d].debits + ledgerHist[d].credits

\* C9: every persisted balance is an integer >= 0 at all times, however the
\* ledger operations interleave.
C9_BalanceNeverNegative ==
  \A d \in DeviceIds : users[d].remainingScans \in Nat

C9_Witness ==
  \E d \in DeviceIds :
    users[d].exists /\ users[d].remainingScans = 0 /\ ledgerHist[d].debits = 2

\* C10: a debit that reads a balance of 0 for its owner fails with
\* QUOTA_EXCEEDED and writes nothing: the step that fails it and every later
\* step of the same operation leave the persisted records as they are.
DebitReadsZero(p) ==
  /\ op[p].kind = "decrementCredits"
  /\ op[p].pc = "read"
  /\ op'[p].pc # "read"
  /\ op'[p].err # "read error"
  /\ users[op[p].deviceId].exists
  /\ users[op[p].deviceId].remainingScans = 0

C10_DebitAtZeroRefused ==
  [][\A p \in Procs :
       /\ DebitReadsZero(p)
            => /\ op'[p].err = "QUOTA_EXCEEDED"
               /\ op'[p].pc # "write"
               /\ users' = users
       /\ (op[p].err = "QUOTA_EXCEEDED" /\ op'[p] # op[p])
            => /\ op'[p].pc # "write"
               /\ users' = users]_vars

C10_Witness ==
  \E p \in Procs :
    /\ op[p].kind = "decrementCredits"
    /\ op[p].pc = "thrown"
    /\ op[p].err = "QUOTA_EXCEEDED"
    /\ users[op[p].deviceId] = StoredUser(0)


(***************************************************************************)
(* Properties of the report cache.                                         *)
(***************************************************************************)
\* C11: the cache never holds more than MAX_CACHE_ENTRIES entries, however the
\* requests, the lookups, the clock and the sweep interleave.
C11_CacheWithinLimit == Cardinality(Held(cache)) <= MAX_CACHE_ENTRIES

\* the cache was full, and two requests in flight together have each stored a
\* report for a subject of their own
C11_Witness ==
  /\ Cardinality(Held(cache)) = MAX_CACHE_ENTRIES
  /\ \E t, u \in CacheProcs :
       /\ jobs[t].status = "done" /\ jobs[u].status = "done"
       /\ jobs[t].url # jobs[u].url
       /\ cache[calculateUrlHash(jobs[t].url)].seq > MAX_CACHE_ENTRIES
       /\ cache[calculateUrlHash(jobs[u].url)].seq > cache[calculateUrlHash(jobs[t].url)].seq

\* a step that stores a new subject, and the entries it removes
StoresNewSubject == \E h \in Urls : ~cache[h].present /\ cache'[h].present
Evicted == {u \in Held(cache) : ~cache'[u].present}

\* C12: when a new subject is stored while the cache holds MAX_CACHE_ENTRIES
\* entries or more, exactly size - MAX_CACHE_ENTRIES + 1 entries are evicted,
\* and no entry that stays was accessed earlier than an evicted one.
C12_EvictsLeastRecentlyAccessed ==
  [][(StoresNewSubject /\ Cardinality(Held(cache)) >= MAX_CACHE_ENTRIES)
       => /\ Cardinality(Evicted) = Cardinality(Held(cache)) - MAX_CACHE_ENTRIES + 1
          /\ \A e \in Evicted, k \in Held(cache) \ Evicted :
               cache[e].lastAccessedAt <= cache[k].lastAccessedAt]_vars

\* the cache was full, entry #2 was hit, then one more subject was stored:
\* entry #2 is still there and the untouched entry #1 is gone, unexpired
C12_Witness ==
  /\ now <= MAX_CACHE_AGE
  /\ ~cache[Subjects[1]].present
  /\ cache[Subjects[2]].present
  /\ cache[Subjects[2]].lastAccessedAt > cache[Subjects[2]].createdAt
  /\ \E t \in CacheProcs : hist[t].hit /\ jobs[t].url = Subjects[2]
  /\ cache[Subjects[MAX_CACHE_ENTRIES + 1]].present
  /\ cache[Subjects[MAX_CACHE_ENTRIES + 1]].createdAt >= cache[Subjects[2]].lastAccessedAt

\* processJob starts on the job of task t
JobStarts(t) == jobs[t].status = "none" /\ jobs'[t].status = "running"

\* a job for the same subject reference and language has ended done, and the
\* entry of the subject is in the cache and within MAX_CACHE_AGE
DoneBefore(t) ==
  /\ \E u \in DOMAIN jobs \ {t} :
       /\ jobs[u].status = "done"
       /\ jobs[u].url = jobs'[t].url
       /\ jobs[u].userLanguage = jobs'[t].userLanguage
  /\ cache[calculateUrlHash(jobs'[t].url)].present
  /\ now - cache[calculateUrlHash(jobs'[t].url)].createdAt <= MAX_CACHE_AGE

\* C14: a job started after a job for the same subject reference and language
\* ended done, within the TTL and with the entry still in the cache, takes the
\* cache-hit path whatever its content; a job on the cache-hit path makes no
\* provider call and ends done with the cached report, marked source cache.
C14_LaterJobHitsCache ==
  /\ [][\A t \in DOMAIN jobs :
         (JobStarts(t) /\ DoneBefore(t))
           => /\ hist'[t].hit
              /\ task'[t].cached = cache[calculateUrlHash(jobs'[t].url)].reports[jobs'[t].userLanguage]
              /\ task'[t].cached # 0]_vars
  /\ [](\A t \in DOMAIN jobs :
         hist[t].hit
           => /\ hist[t].providerCalls = 0
              /\ task[t].pc \in {"hit_debit", "settled"}
              /\ task[t].pc = "hit_debit" => report[task[t].cached].source = "cache"
              /\ task[t].pc = "settled"
                   => /\ jobs[t].status = "done"
                      /\ report[jobs[t].result].exists
                      /\ report[jobs[t].result].source = "cache"
                      /\ report[jobs[t].result].urlHash = calculateUrlHash(jobs[t].url)
                      /\ report[jobs[t].result].lang = jobs[t].userLanguage)

\* a job stored a report, and a later job for the same subject and language
\* with another content ended done on the cache-hit path with that report
C14_Witness ==
  \E t, u \in DOMAIN jobs :
    /\ jobs[u].status = "done" /\ ~hist[u].hit
    /\ jobs[t].status = "done" /\ hist[t].hit
    /\ jobs[t].url = jobs[u].url /\ jobs[t].userLanguage = jobs[u].userLanguage
    /\ jobs[t].content # jobs[u].content
    /\ jobs[t].result = jobs[u].result
    /\ hist[t].providerCalls = 0

\* GET /report answers the request of task t
Answers(t) == task[t].pc = "idle" /\ task'[t].pc = "answered"

\* C15: GET /report has no side effect: the step that answers it, with a report
\* or with 404, leaves the ledger, the jobs, every cache entry and every report
\* object as they were.
C15_ReportLookupReadOnly ==
  [][\A t \in DOMAIN task :
       Answers(t) => /\ users' = users
                     /\ ledgerHist' = ledgerHist
                     /\ op' = op
                     /\ jobs' = jobs
                     /\ cache' = cache
                     /\ report' = report]_vars

\* after the clock moved, one lookup was answered with a stored report and
\* another with 404
C15_Witness ==
  \E t, u \in DOMAIN task :
    /\ task[t].pc = "answered" /\ task[t].http = 200 /\ task[t].cached # 0
    /\ cache[report[task[t].cached].urlHash].present
    /\ cache[report[task[t].cached].urlHash].lastAccessedAt < now
    /\ task[u].pc = "answered" /\ task[u].http = 404

\* C17: two cache lookups of processJob that find the same report for the same
\* subject and language return it with the same content, whatever content
\* the two jobs submitted.
C17_LookupsReturnSameContent ==
  \A t, u \in DOMAIN hist :
    (hist[t].hit /\ hist[u].hit /\ hist[t].servedId = hist[u].servedId)
      => hist[t].servedHash = hist[u].servedHash

(***************************************************************************)
(* Properties of the job store.                                            *)
(***************************************************************************)
\* C13: whatever jobs are added, updated and swept, the JobManager never holds
\* more than maxJobs jobs.
C13_JobStoreWithinLimit == Cardinality(Stored(jobs)) <= maxJobs

(***************************************************************************)
(* Properties of recordPurchase.                                           *)
(***************************************************************************)
\* the price table: euros paid, credits granted
PriceTable == (2 :> 10) @@ (5 :> 30) @@ (10 :> 100)
Granted(amount) == IF amount \in DOMAIN PriceTable THEN PriceTable[amount] ELSE 0

\* a recordPurchase with status completed has left its try/finally
PurchaseEnded(p) ==
  /\ op[p].kind = "recordPurchase"
  /\ op[p].status = "completed"
  /\ op[p].pc \in {"returned", "thrown"}

\* the operation returned, and the last entry of its owner's purchase history
\* grants n credits and ends on the owner's balance
PurchaseRecorded(p, n) ==
  LET user == users[op[p].deviceId] IN
    /\ op[p].pc = "returned"
    /\ op[p].ret = n
    /\ Len(user.purchaseHistory) > 0
    /\ user.purchaseHistory[Len(user.purchaseHistory)].scansAdded = n
    /\ user.purchaseHistory[Len(user.purchaseHistory)].creditsAfter = user.remainingScans

\* the write of a recordPurchase with status completed
PurchaseWrite(p) ==
  /\ op[p].kind = "recordPurchase"
  /\ op[p].status = "completed"
  /\ op[p].pc = "write"
  /\ op'[p].pc # "write"

\* what the write does to the ledger: the owner's balance grows by n, one
\* history entry is appended, and no other owner changes
PurchaseAdds(p, n) ==
  LET d == op[p].deviceId IN
    /\ users'[d].remainingScans = users[d].remainingScans + n
    /\ Len(users'[d].purchaseHistory) = Len(users[d].purchaseHistory) + 1
    /\ SubSeq(users'[d].purchaseHistory, 1, Len(users[d].purchaseHistory))
         = users[d].purchaseHistory
    /\ users'[d].purchaseHistory[Len(users'[d].purchaseHistory)].creditsBefore
         = users[d].remainingScans
    /\ \A e \in DeviceIds \ {d} : users'[e] = users[e]

BetweenAcquireAndRelease(p) == op[p].pc \in {"acq_ok", "read", "write", "rel_unlink"}

\* inside the read-modify-write section
InSection(p) == op[p].pc \in {"read", "write"}

\* the call gave up in acquireLock
FailedToAcquire(p) == op[p].err = "Unable to acquire lock on users.json"

\* C18: an operation that acquired the lock does not leave it behind, whether
\* it returns or throws: a lock file exists only while some operation is
\* between its acquireLock and the end of its releaseLock, so once the
\* operations have ended the lock is free for the next one.
C18_LockReleasedOnEveryExit ==
  /\ lockFile # "absent" => \E q \in Procs : BetweenAcquireAndRelease(q)
  /\ (\A p \in Procs : op[p].pc \in {"idle", "returned", "thrown"}) => lockFile = "absent"

\* over the local file, one operation threw QUOTA_EXCEEDED and another a
\* write error, both after acquiring, and the lock is free
C18_Witness ==
  /\ ~useJsonBin
  /\ lockFile = "absent"
  /\ \E p, q \in Procs :
       /\ op[p].pc = "thrown" /\ op[p].err = "QUOTA_EXCEEDED"
       /\ op[q].pc = "thrown" /\ op[q].err = "write error"

\* C19: over the local file, no two operations are inside their
\* read-modify-write section at the same time.
C19_MutualExclusion ==
  ~useJsonBin => \A p, q \in Procs : (InSection(p) /\ InSection(q)) => p = q

\* C20: the releaseLock of an operation that gave up in acquireLock does not
\* remove the lock file while another operation is between its own
\* acquireLock and releaseLock.
C20_FailedAcquireKeepsOthersLock ==
  [][\A p \in Procs :
       (/\ op[p].pc = "rel_unlink"
        /\ op'[p].pc # "rel_unlink"
        /\ FailedToAcquire(p)
        /\ lockFile # "absent"
        /\ lockFile' = "absent")
         => ~\E q \in Procs \ {p} : op[q].pc \in {"acq_ok", "read", "write"}]_vars

(***************************************************************************)
(* Further properties of the pipeline.                                     *)
(***************************************************************************)
\* C21: a job is debited successfully at most once and refunded at most once;
\* its creditDebited flag is set only by its own successful pre-flight debit,
\* never on the cache-hit path or after a failed debit; a refund is called or
\* counted only for a job whose flag is set.
C21_AtMostOneDebitAndRefund ==
  \A t \in DOMAIN hist :
    /\ hist[t].debits <= 1
    /\ hist[t].refunds <= 1
    /\ jobs[t].creditDebited => (hist[t].debits = 1 /\ ~hist[t].hit)
    /\ (task[t].pc = "refund" \/ hist[t].refunds > 0) => jobs[t].creditDebited

\* one job ended done on the cache-hit path with its debit, the other was
\* debited before the provider call and then failed
C21_Witness ==
  \E t, u \in DOMAIN hist :
    /\ hist[t].hit /\ hist[t].debits = 1 /\ jobs[t].status = "done"
    /\ ~jobs[t].creditDebited
    /\ jobs[u].creditDebited /\ hist[u].debits = 1 /\ hist[u].raised # ""

(***************************************************************************)
(* Further properties of the ledger.                                       *)
(***************************************************************************)
\* C22: the write of a ledger operation on one owner leaves the stored record
\* of every other owner as it was, also when an operation on the other owner
\* runs at the same time.
C22_OtherOwnersUntouched ==
  [][\A p \in Procs :
       (op[p].pc = "write" /\ op'[p].pc # "write")
         => \A d \in DeviceIds \ {op[p].deviceId} : users'[d] = users[d]]_vars

(***************************************************************************)
(* Further properties of the job store.                                    *)
(***************************************************************************)
\* a step of addJob: a job that was not in the Map is now in it
AddsJob == \E id \in JobIds : ~jobs[id].present /\ jobs'[id].present

\* C23: while addJob makes room at capacity, jobs are evicted by age only:
\* every job it removes is older than the maximum age or among the
\* floor(0.1 * maxJobs) jobs with the smallest createdAt, and no job is removed
\* because of its status, so a recent done job is never removed while an older
\* running or error job is retained.  The formula states this last consequence:
\* a step of addJob that removes a done job younger than the maximum age keeps
\* no running or error job created before it.
C23_EvictedByAgeOnly ==
  [][AddsJob =>
       \A id \in JobIds :
         (/\ jobs[id].present /\ ~jobs'[id].present
          /\ jobs[id].status = "done"
          /\ ~(jobs[id].createdAt < now - JOB_MAX_AGE))
           => ~\E kept \in JobIds :
                 /\ jobs[kept].present /\ jobs'[kept].present
                 /\ jobs[kept].status \in {"running", "error"}
                 /\ jobs[kept].createdAt < jobs[id].createdAt]_vars

(***************************************************************************)
(* Further properties of the cache and of job results.                     *)
(***************************************************************************)
\* C24: once a job is done its result is never modified by later activity; a
\* later cache hit by another job leaves the earlier job's result as it was
\* (its source stays "ai" and its content_hash stays its own).  The formula
\* is about the jobs whose result came from the provider.
C24_DoneResultNeverModified ==
  [][\A t \in CacheProcs :
       (jobs[t].status = "done" /\ ~hist[t].hit /\ jobs'[t].status = "done")
         => /\ jobs'[t].result = jobs[t].result
            /\ report'[jobs[t].result] = report[jobs[t].result]]_vars

\* the entries holding report rid
Holding(rid) == {u \in DOMAIN cache : cache[u].present /\ \E l \in Langs : cache[u].reports[l] = rid}

\* C25: no access path returns a report from an entry older than
\* MAX_CACHE_AGE: the lookup of processJob and GET /report both treat an
\* expired entry as absent, also when the sweep has not run yet.
C25_NoAnswerFromExpiredEntry ==
  [][\A t \in CacheProcs :
       /\ (~hist[t].hit /\ hist'[t].hit)
            => \A u \in Holding(hist'[t].servedId) : ~CacheExpired(cache[u])
       /\ (task[t].pc = "idle" /\ task'[t].pc = "answered" /\ task'[t].http = 200)
            => \A u \in Holding(task'[t].cached) : ~CacheExpired(cache[u])]_vars

\* the lookup of job t finds an entry past MAX_CACHE_AGE
ExpiryLookup(t) ==
  /\ task[t].pc \in {"scan_getUser", "scan_createUser"}
  /\ jobs'[t].status = "running"
  /\ CacheExpired(cache[calculateUrlHash(task[t].url)])

\* C26: lazy expiry in the lookup of processJob: an entry older than
\* MAX_CACHE_AGE is deleted and the lookup counts as a miss (the debit, then
\* the provider call); the entry the job stores into afterwards has a new
\* createdAt, one that was not expired when the job looked up.
C26_LazyExpiry ==
  [][\A t \in CacheProcs :
       /\ ExpiryLookup(t)
            => /\ ~cache'[calculateUrlHash(task[t].url)].present
               /\ ~hist'[t].hit
               /\ task'[t].pc = "load_prompt"
       /\ (task[t].pc = "load_prompt" /\ task'[t].pc # "load_prompt")
            => task'[t].pc = "pre_debit"
       /\ hist'[t].providerCalls > hist[t].providerCalls
            => task[t].pc = "pre_debit"
       /\ (task[t].pc = "provider" /\ jobs'[t].status = "done")
            => LET e == cache'[calculateUrlHash(jobs[t].url)]
               IN /\ e.present
                  /\ e.reports[jobs[t].userLanguage] = t
                  /\ jobs[t].createdAt - e.createdAt <= MAX_CACHE_AGE]_vars

\* a job found the expired entry of its subject (the sweep has not run: the
\* other initial entry is still there, expired), was debited, called the
\* provider and stored a new entry
C26_Witness ==
  \E t \in CacheProcs :
    LET h == calculateUrlHash(jobs[t].url) IN
    /\ \A u \in CacheProcs \ {t} : task[u].pc = "idle"
    /\ jobs[t].url \in {Subjects[k] : k \in 1..MAX_CACHE_ENTRIES}
    /\ jobs[t].status = "done" /\ ~hist[t].hit
    /\ hist[t].debits = 1 /\ hist[t].providerCalls = 1
    /\ jobs[t].createdAt > MAX_CACHE_AGE
    /\ cache[h].present /\ cache[h].reports[jobs[t].userLanguage] = t
    /\ cache[h].createdAt >= jobs[t].createdAt
    /\ \E u \in DOMAIN cache \ {h} : CacheExpired(cache[u])

(***************************************************************************)
(* Further properties of the lock.                                         *)
(***************************************************************************)
\* the step in which operation p leaves the loop of acquireLock after its
\* last attempt
GivesUp(p) ==
  /\ op[p].i + 1 >= maxRetries
  /\ \/ op[p].pc = "acq_unlink"
     \/ op[p].pc = "acq_stat" /\ lockFile # "stale"
  /\ op'[p] # op[p]

\* C27: when acquireLock cannot obtain the lock within its attempts, the
\* calling ledger operation fails with a thrown error and has neither read nor
\* written the ledger: the persisted record set is unchanged by it.
C27_FailedAcquireLeavesLedger ==
  [][\A p \in Procs :
       /\ GivesUp(p)
            => /\ op'[p].err = "Unable to acquire lock on users.json"
               /\ op'[p].pc \in {"rel_unlink", "thrown"}
               /\ op[p].data = EmptyData /\ op'[p].data = EmptyData
               /\ users' = users /\ ledgerHist' = ledgerHist
       /\ (FailedToAcquire(p) /\ op'[p] # op[p])
            => /\ op[p].pc \in {"rel_unlink", "thrown"}
               /\ op'[p].pc \in {"thrown", "idle"}
               /\ op[p].data = EmptyData
               /\ users' = users /\ ledgerHist' = ledgerHist]_vars

\* a debit of an owner with credit gave up in acquireLock and has thrown
C27_Witness ==
  \E p \in Procs :
    /\ ~useJsonBin
    /\ op[p].pc = "thrown" /\ FailedToAcquire(p)
    /\ op[p].kind = "decrementCredits"
    /\ users[op[p].deviceId].exists /\ users[op[p].deviceId].remainingScans > 0
    /\ ledgerHist[op[p].deviceId].writes = 0

\* users.lock is on disk and no operation is between its acquireLock and the
\* end of its releaseLock
Abandoned == lockFile # "absent" /\ \A q \in Procs : ~BetweenAcquireAndRelease(q)

C29_InvalidArtifactEndsInError ==
  \A t \in Procs :
    (hist[t].raised \in {"unparsable", "missing_fields"} /\ RunEnded(t))
      => /\ jobs[t].status = "error"
         /\ jobs[t].result = 0
         /\ \A u \in DOMAIN cache, l \in Langs : cache[u].reports[l] # t

\* the step in which callGemini's valid answer reaches job t
ValidAnswer(t) ==
  /\ task[t].pc = "provider" /\ task'[t].pc # "provider"
  /\ hist'[t].raised \notin ProviderOutcomes

\* C30: the cache store cannot fail once the provider returned a valid report:
\* for every accepted url, the default 'unknown' included, the job ends done
\* and the entry is in the cache; no existing entry is evicted for a store that
\* then fails.
C30_StoreCannotFail ==
  [][\A t \in CacheProcs :
       ValidAnswer(t)
         => /\ jobs'[t].status = "done"
            /\ jobs'[t].result = t
            /\ cache'[calculateUrlHash(jobs[t].url)].present
            /\ cache'[calculateUrlHash(jobs[t].url)].reports[jobs[t].userLanguage] = t
            /\ \A u \in DOMAIN cache :
                 (cache[u].present /\ ~cache'[u].present)
                   => cache'[calculateUrlHash(jobs[t].url)].present]_vars

(***************************************************************************)
(* Properties of the ledger methods, each relative to the record set the   *)
(* method read.                                                            *)
(***************************************************************************)
\* _readUsers() of operation p returns in this step
ReadReturns(p) ==
  op[p].pc = "read" /\ op'[p].pc # "read" /\ op'[p].err # "read error"

\* _writeUsers(data) of operation p succeeds in this step
WriteReturns(p) ==
  op[p].pc = "write" /\ op'[p].pc # "write" /\ op'[p].err # "write error"

\* C31: a debit on an existing owner with balance b > 0 persists balance
\* b - 1 and usage counter + 1 and returns b - 1; a debit on an owner with
\* no record fails with USER_NOT_FOUND and changes nothing.
C31_DebitPersistsAndReturns ==
  [][\A p \in Procs :
       LET d == op[p].deviceId
           u == users[d]
       IN op[p].kind = "decrementCredits"
            => /\ (ReadReturns(p) /\ u.exists /\ u.remainingScans > 0)
                    => /\ op'[p].pc = "write" /\ op'[p].err = ""
                       /\ op'[p].ret = u.remainingScans - 1
                       /\ op'[p].data =
                            [users EXCEPT ![d].remainingScans = u.remainingScans - 1,
                                          ![d].totalScansUsed = u.totalScansUsed + 1]
               /\ WriteReturns(p)
                    => /\ users' = op[p].data
                       /\ op'[p].ret = users'[d].remainingScans
                       /\ op'[p].pc \in {"rel_unlink", "returned"}
               /\ (ReadReturns(p) /\ ~u.exists)
                    => /\ op'[p].err = "USER_NOT_FOUND"
                       /\ op'[p].pc \in {"rel_unlink", "thrown"}
               /\ (op[p].err = "USER_NOT_FOUND" /\ op'[p] # op[p])
                    => /\ users' = users
                       /\ op'[p].pc \in {"thrown", "idle"}]_vars

\* one debit returned the persisted balance of an owner whose usage counter
\* it raised, and a debit of an owner without a record threw USER_NOT_FOUND
C31_Witness ==
  \E p, q \in Procs :
    /\ op[p].kind = "decrementCredits" /\ op[p].pc = "returned"
    /\ users[op[p].deviceId].totalScansUsed = 1
    /\ op[p].ret = users[op[p].deviceId].remainingScans
    /\ ledgerHist[op[p].deviceId].init = op[p].ret + 1
    /\ op[q].kind = "decrementCredits" /\ op[q].pc = "thrown"
    /\ op[q].err = "USER_NOT_FOUND" /\ ~users[op[q].deviceId].exists

(***************************************************************************)
(* Further properties of the cache entries.                                *)
(***************************************************************************)
\* job t missed, called the provider and is done
DoneByProvider(t) == jobs[t].status = "done" /\ ~hist[t].hit /\ jobs[t].result = t

\* C32: two jobs for the same url in different languages that both miss and
\* run concurrently: after both are done the one entry of the url holds both
\* reports, whichever store ran first; storing a language into an existing
\* entry never removes another language and never evicts an entry.
C32_MergeKeepsLanguages ==
  /\ [][\A t \in CacheProcs :
          LET h == calculateUrlHash(jobs[t].url)
              lang == jobs[t].userLanguage
          IN (ValidAnswer(t) /\ cache[h].present)
               => /\ jobs'[t].status = "done"
                  /\ cache'[h].present
                  /\ cache'[h].reports = [cache[h].reports EXCEPT ![lang] = t]
                  /\ cache'[h].createdAt = cache[h].createdAt
                  /\ \A u \in DOMAIN cache \ {h} : cache'[u] = cache[u]]_vars
  /\ [](\A t, u \in CacheProcs :
          (/\ t # u /\ DoneByProvider(t) /\ DoneByProvider(u)
           /\ jobs[t].url = jobs[u].url
           /\ jobs[t].userLanguage # jobs[u].userLanguage
           /\ ticks = 0)
            => LET e == cache[calculateUrlHash(jobs[t].url)]
               IN /\ e.present
                  /\ e.reports[jobs[t].userLanguage] = t
                  /\ e.reports[jobs[u].userLanguage] = u)

\* both jobs missed on an empty entry, both are done, and the entry, created
\* by the first store, holds the report of each
C32_Witness ==
  \E t, u \in CacheProcs :
    /\ t # u /\ DoneByProvider(t) /\ DoneByProvider(u)
    /\ jobs[t].url = jobs[u].url
    /\ jobs[t].userLanguage = "en" /\ jobs[u].userLanguage = "fr"
    /\ LET e == cache[calculateUrlHash(jobs[t].url)]
       IN /\ e.present
          /\ e.reports["en"] = t /\ e.reports["fr"] = u
          /\ e.createdAt >= jobs[t].createdAt /\ e.createdAt >= jobs[u].createdAt

C34_EntryHoldsReportAndKeepsCreatedAt ==
  /\ [](\A u \in DOMAIN cache :
          cache[u].present => \E l \in Langs : cache[u].reports[l] # 0)
  /\ [][\A u \in DOMAIN cache :
          (cache[u].present /\ cache'[u].present)
            => cache'[u].createdAt = cache[u].createdAt]_vars

\* an entry got a second language from one job and was hit by another, both
\* after its creation, and its createdAt is still the earlier time
C34_Witness ==
  \E t, v \in CacheProcs :
    LET e == cache[calculateUrlHash(jobs[t].url)] IN
    /\ t # v /\ DoneByProvider(t)
    /\ e.present /\ e.reports[jobs[t].userLanguage] = t
    /\ \E l \in Langs \ {jobs[t].userLanguage} : e.reports[l] # 0
    /\ e.createdAt < jobs[t].createdAt
    /\ hist[v].hit /\ jobs[v].status = "done" /\ jobs[v].url = jobs[t].url
    /\ e.createdAt < jobs[v].createdAt

\* C35: a cache hit of processJob (entry present, within MAX_CACHE_AGE, the
\* language asked for present) sets the entry's lastAccessedAt to the current
\* time; an entry's lastAccessedAt never decreases and is never earlier than
\* its createdAt.
C35_LastAccessedAt ==
  /\ [][\A t \in CacheProcs :
          (~hist[t].hit /\ hist'[t].hit)
            => LET h == calculateUrlHash(task[t].url)
               IN /\ CacheHit(cache[h], task[t].lang)
                  /\ cache'[h].present
                  /\ cache'[h].lastAccessedAt = now]_vars
  /\ [][\A u \in DOMAIN cache :
          (cache[u].present /\ cache'[u].present)
            => cache'[u].lastAccessedAt >= cache[u].lastAccessedAt]_vars
  /\ [](\A u \in DOMAIN cache :
          cache[u].present => cache[u].lastAccessedAt >= cache[u].createdAt)

\* a job hit an entry created earlier, and the entry's lastAccessedAt is the
\* time of that hit
C35_Witness ==
  \E t \in CacheProcs :
    LET e == cache[calculateUrlHash(jobs[t].url)] IN
    /\ hist[t].hit /\ jobs[t].status = "done"
    /\ e.present /\ e.reports[jobs[t].userLanguage] = jobs[t].result
    /\ e.lastAccessedAt = jobs[t].createdAt
    /\ e.lastAccessedAt > e.createdAt

\* a step that changes the cache and nothing else: the periodic sweep
OnlyCacheChanges ==
  /\ cache' # cache
  /\ UNCHANGED <<gemini, useJsonBin, users, lockFile, lockActive, op, ledgerHist, calls,
                 server, now, ticks, jobs, task, report, hist>>

\* C36: after each periodic cache sweep no entry older than MAX_CACHE_AGE
\* remains, however recently it was accessed, and every entry within
\* MAX_CACHE_AGE is left in place and unchanged.
C36_SweepRemovesExactlyExpired ==
  /\ [](\A u \in DOMAIN cache :
          /\ (cache[u].present /\ now - cache[u].createdAt > MAX_CACHE_AGE)
               => ~Swept(cache)[u].present
          /\ (cache[u].present /\ now - cache[u].createdAt <= MAX_CACHE_AGE)
               => Swept(cache)[u] = cache[u])
  /\ [][OnlyCacheChanges => cache' = Swept(cache)]_vars

\* the only job so far hit an entry, time passed, and the entry is gone: the
\* sweep removed it
C36_Witness ==
  \E t \in CacheProcs :
    LET h == calculateUrlHash(jobs[t].url) IN
    /\ \A v \in CacheProcs \ {t} : task[v].pc = "idle" /\ jobs[v].status = "none"
    /\ hist[t].hit /\ jobs[t].status = "done"
    /\ jobs[t].createdAt > 0
    /\ now - jobs[t].createdAt <= MAX_CACHE_AGE + 1
    /\ ~cache[h].present
    /\ \A u \in DOMAIN cache : ~cache[u].present

\* a step that removes a job from the Map and adds none: the periodic cleanup()
RemovesJobOnly ==
  /\ \E id \in JobIds : jobs[id].present /\ ~jobs'[id].present
  /\ ~AddsJob

\* C37: after each periodic sweep of the job store no job older than the
\* maximum age remains, whatever its status (queued and running included),
\* and every job younger than the maximum age is left in place.
C37_JobSweepRemovesExactlyOld ==
  /\ [](\A id \in JobIds :
          /\ (jobs[id].present /\ now - jobs[id].createdAt > JOB_MAX_AGE)
               => ~cleanup(jobs, FALSE)[id].present
          /\ (jobs[id].present /\ now - jobs[id].createdAt <= JOB_MAX_AGE)
               => cleanup(jobs, FALSE)[id] = jobs[id])
  /\ [][RemovesJobOnly => jobs' = cleanup(jobs, FALSE)]_vars

\* the sweep removed a running job older than the maximum age and left a
\* younger job in the Map (the Map was never full)
C37_Witness ==
  /\ ~jobs[1].present /\ jobs[1].status = "running"
  /\ jobs[2].present /\ now - jobs[2].createdAt <= JOB_MAX_AGE
  /\ jobs[3].status = "none"

\* C38: createUser is idempotent: for an owner that has a record it returns
\* that record and leaves balance, usage counter and purchase history as they
\* are; only for an owner without a record does it create one, seeded with
\* INITIAL_CREDITS.
C38_CreateUserIdempotent ==
  [][\A p \in Procs :
       LET d == op[p].deviceId
           u == users[d]
       IN op[p].kind = "createUser"
            => /\ (ReadReturns(p) /\ u.exists)
                    => /\ op'[p].user = u /\ op'[p].err = ""
                       /\ op'[p].pc \in {"rel_unlink", "returned"}
               /\ (ReadReturns(p) /\ ~u.exists)
                    => /\ op'[p].pc = "write"
                       /\ op'[p].user.remainingScans = INITIAL_CREDITS
                       /\ op'[p].user.totalScansUsed = 0
                       /\ op'[p].user.purchaseHistory = <<>>
                       /\ op'[p].data = [users EXCEPT ![d] = op'[p].user]
               /\ WriteReturns(p) => users' = op[p].data
               /\ (op[p].pc # "write" /\ op'[p] # op[p]) => users' = users]_vars

\* two createUser calls for one owner returned the same record, and the
\* record was written once
C38_Witness ==
  \E p, q \in Procs :
    /\ p # q
    /\ op[p].kind = "createUser" /\ op[p].pc = "returned"
    /\ op[q].kind = "createUser" /\ op[q].pc = "returned"
    /\ op[p].deviceId = op[q].deviceId
    /\ op[p].user = users[op[p].deviceId] /\ op[q].user = op[p].user
    /\ users[op[p].deviceId].remainingScans = INITIAL_CREDITS
    /\ ledgerHist[op[p].deviceId].writes = 1

\* sequence a is an initial part of sequence b
IsPrefix(a, b) == Len(a) <= Len(b) /\ \A k \in 1..Len(a) : b[k] = a[k]

\* C39: an owner's purchase history is append-only: no ledger operation
\* modifies, reorders or removes an existing entry, and every appended entry
\* has creditsAfter = creditsBefore + scansAdded, with creditsAfter the
\* balance the same operation persists.
C39_PurchaseHistoryAppendOnly ==
  [][\A d \in DeviceIds :
       LET before == users[d].purchaseHistory
           after == users'[d].purchaseHistory
       IN /\ IsPrefix(before, after)
          /\ \A k \in (Len(before) + 1)..Len(after) :
               /\ after[k].creditsAfter = after[k].creditsBefore + after[k].scansAdded
               /\ after[k].creditsAfter = users'[d].remainingScans]_vars

(***************************************************************************)
(* Properties of the provider call.                                        *)
(***************************************************************************)
\* C40: callGemini tries the fallback models in list order, returns the text
\* of the first model that succeeds without calling any later model, and
\* throws only when every model of the list has failed (or the list is empty).
C40_FirstSuccessInListOrder ==
  /\ Len(gemini.called) <= Len(gemini.fallbackModels)
  /\ gemini.called = SubSeq(gemini.fallbackModels, 1, Len(gemini.called))
  /\ Len(gemini.outcomes) = Len(gemini.called)
  /\ \A k \in 1..(Len(gemini.outcomes) - 1) : gemini.outcomes[k] \in Failures
  /\ gemini.pc = "returned"
       => /\ gemini.outcomes[Len(gemini.outcomes)] = "ok"
          /\ gemini.text = TextOf(gemini.called[Len(gemini.called)])
  /\ gemini.pc = "thrown"
       => /\ gemini.called = gemini.fallbackModels
          /\ \A k \in 1..Len(gemini.outcomes) : gemini.outcomes[k] \in Failures
  /\ (gemini.pc = "fetch" /\ gemini.called # <<>>)
       => gemini.outcomes[Len(gemini.outcomes)] \in Failures

\* the first model failed, the second answered and its text was returned; the
\* third was not called
C40_Witness ==
  /\ gemini.pc = "returned"
  /\ Len(gemini.fallbackModels) = 3
  /\ Len(gemini.called) = 2
  /\ gemini.outcomes = <<"http_error", "ok">>
  /\ gemini.text = TextOf(gemini.fallbackModels[2])

=============================================================================
